---------------------------- MODULE Spec2Model ----------------------------
(***************************************************************************)
(* A model of bids/analysis/model_design.py: the TransformerManager        *)
(* (registry and sequential application of named transformations), the     *)
(* GLMMSpec builder with its derived X and Z design matrices and its       *)
(* from_collection factory, and VarComp.dummies_to_vec.                    *)
(*                                                                         *)
(* Three specifications share the module:                                  *)
(*   SpecTM       register / transform on one TransformerManager           *)
(*   SpecGLMM     add_term / build_* / X / Z / from_collection             *)
(*   SpecVarComp  the VarComp constructor over every small binary matrix   *)
(*                                                                         *)
(* Python values are encoded as follows.  An optional value is a sequence  *)
(* of length at most one (None is <<>>, a present value v is <<v>>).  A    *)
(* dict is a function over its keys when only lookup matters, and a        *)
(* sequence of [key, val] entries when its insertion order matters.  A     *)
(* 2-D array is a sequence of columns, each column a sequence of nrows     *)
(* numbers, kept together with its row count (shape[0]).                   *)
(***************************************************************************)
EXTENDS Integers, Sequences, FiniteSets, TLC

VARIABLES
    \* ---- TransformerManager ----
    transformations,   \* self.transformations: sanitized name -> handler
    default,           \* self.default: the attribute names of the default module
    request,           \* the arguments of the last transform call
    calls,             \* the handler invocations of the last transform call
    ret,               \* what the last operation of the manager returned or raised
    \* ---- GLMMSpec ----
    terms,             \* self.terms of the instance under observation
    family,            \* self.family
    link,              \* self.link
    collection,        \* the variable collection handed to from_collection
    last,              \* the last GLMMSpec operation: arguments, prior terms, outcome
    \* ---- VarComp ----
    dummies,           \* the matrix handed to the VarComp constructor
    vc                 \* the VarComp constructed from it (<<>> before)

tmVars   == <<transformations, default, request, calls, ret>>
glmmVars == <<terms, family, link, collection, last>>
vcVars   == <<dummies, vc>>
vars     == <<transformations, default, request, calls, ret,
              terms, family, link, collection, last, dummies, vc>>

None == <<>>
Some(v) == <<v>>

\* ------------------------------------------------------------------------
\* Small helpers over sequences and dicts
\* ------------------------------------------------------------------------

Range(s) == {s[i] : i \in 1..Len(s)}

\* All sequences over S of length 0..n.
SeqsUpTo(S, n) == UNION {[1..k -> S] : k \in 0..n}

\* All sequences over S of length 0..n without a repeated element.
DistinctSeqsUpTo(S, n) ==
    {s \in SeqsUpTo(S, n) : \A i, j \in 1..Len(s) : s[i] = s[j] => i = j}

\* dict.pop(key[, default]) seen as the dict that is left.
Pop(d, k) == [x \in (DOMAIN d) \ {k} |-> d[x]]

\* dict.get(key, None)
DictGet(d, k) == IF k \in DOMAIN d THEN Some(d[k]) ELSE None

RECURSIVE SumSeq(_)
SumSeq(s) == IF s = <<>> THEN 0 ELSE Head(s) + SumSeq(Tail(s))

RECURSIVE Flatten(_)
Flatten(ss) == IF ss = <<>> THEN <<>> ELSE Head(ss) \o Flatten(Tail(ss))

\* What a call on a GLMMSpec returns: None, a table, an instance, or a
\* raised exception.
Return(kind) == [kind |-> kind, exc |-> "", columns |-> <<>>, data |-> <<>>]
ReturnNone == Return("None")
Raise(type) == [kind |-> "raise", exc |-> type, columns |-> <<>>, data |-> <<>>]
DataFrame(data, columns) ==
    [kind |-> "DataFrame", exc |-> "", columns |-> columns, data |-> data]

\* The record of the last call on the GLMMSpec under observation.
Op(op, arg, pre, exc, out, consulted, constructed) ==
    [op |-> op, arg |-> arg, pre |-> pre, exc |-> exc, out |-> out,
     consulted |-> consulted, constructed |-> constructed]

\* No call yet.
NoOp == Op("none", <<>>, <<>>, None, ReturnNone, {}, 0)

\* A 2-D array of nrows rows, given by its columns.
Matrix(nrows, cols) == [kind |-> "ndarray", nrows |-> nrows, cols |-> cols]

\* ------------------------------------------------------------------------
\* TransformerManager
\* ------------------------------------------------------------------------

MaxSpecs == 2

\* Names a caller registers or puts in a spec, and the handlers it registers.
RegisterNames == {"And", "Or", "Scale"}
SpecNames     == {"And", "Or", "Scale"}
Handlers      == {"h1", "h2"}

\* The default modules a manager may be constructed with, as attribute sets.
DefaultModules == { {"And", "Or"}, {"Scale"}, {"And_", "Or_", "Scale"} }

\* The transformation specs of the model: a Name, an optional Input and an
\* optional further option that is forwarded to the handler.
TransformationSpecs ==
    [Name : SpecNames]
    \cup [Name : SpecNames, Input : {<<"x">>}, Weights : {1}]

CollectionIds == {1, 2}

_sanitize_name(name) ==
    IF name \in {"And", "Or"} THEN name \o "_" ELSE name

\* hasattr(self.default, name) / getattr(self.default, name)
HasAttr(module, name) == name \in module
GetAttr(module, name) == "pbt." \o name

\* One handler invocation func(collection, cols, **kwargs).  The handler
\* mutates the collection in place; the mutation is recorded as the
\* handler's mark appended to the collection's content.
Invoke(func, st, cols, kwargs) ==
    [content |-> Append(st.content, func),
     calls   |-> Append(st.calls,
                        [func    |-> func,
                         coll    |-> st.coll,
                         seen    |-> st.content,
                         cols    |-> cols,
                         options |-> kwargs]),
     coll    |-> st.coll,
     exc     |-> None]

\* The body of transform's loop for one spec t.
TransformBody(reg, module, t, st) ==
    LET kwargs0 == t
        name    == _sanitize_name(kwargs0["Name"])
        kwargs1 == Pop(kwargs0, "Name")
        cols    == DictGet(kwargs1, "Input")
        kwargs  == Pop(kwargs1, "Input")
        func    == DictGet(reg, name)
    IN  IF func = None
        THEN IF ~HasAttr(module, name)
             THEN [st EXCEPT !.exc = Some([type |-> "ValueError", name |-> name])]
             ELSE Invoke(GetAttr(module, name), st, cols, kwargs)
        ELSE st

RECURSIVE TransformLoop(_, _, _, _)
TransformLoop(reg, module, ts, st) ==
    IF ts = <<>> \/ st.exc # None
    THEN st
    ELSE TransformLoop(reg, module, Tail(ts),
                       TransformBody(reg, module, Head(ts), st))

\* transform(collection, transformations): the final state of the loop, and
\* the returned reference when no spec raised.
transform(reg, module, coll, content, ts) ==
    LET fin == TransformLoop(reg, module, ts,
                             [content |-> content, calls |-> <<>>,
                              coll |-> coll, exc |-> None])
    IN  [content  |-> fin.content,
         calls    |-> fin.calls,
         exc      |-> fin.exc,
         returned |-> IF fin.exc = None THEN Some(coll) ELSE None]

\* register(name, func)
register(reg, name, func) ==
    LET n == _sanitize_name(name)
    IN  [x \in (DOMAIN reg) \cup {n} |-> IF x = n THEN func ELSE reg[x]]

NoRequest == [op |-> "none"]

InitTM ==
    /\ transformations = <<>>
    /\ default \in DefaultModules
    /\ request = NoRequest
    /\ calls = <<>>
    /\ ret = [exc |-> None, returned |-> None]
    \* no GLMMSpec, no VarComp
    /\ terms = <<>>
    /\ family = None
    /\ link = None
    /\ collection = [runLevel |-> FALSE, dense |-> FALSE]
    /\ last = NoOp
    /\ dummies = Matrix(0, <<>>)
    /\ vc = None

Register ==
    \E name \in RegisterNames, func \in Handlers :
        /\ transformations' = register(transformations, name, func)
        /\ request' = [op |-> "register", name |-> name, func |-> func]
        /\ calls' = <<>>
        /\ ret' = [exc |-> None, returned |-> None]
        /\ UNCHANGED <<default, glmmVars, vcVars>>

Transform ==
    \E coll \in CollectionIds, ts \in SeqsUpTo(TransformationSpecs, MaxSpecs) :
        LET r == transform(transformations, default, coll, <<>>, ts)
        IN  /\ request' = [op |-> "transform", coll |-> coll, specs |-> ts,
                           content |-> r.content]
            /\ calls' = r.calls
            /\ ret' = [exc |-> r.exc, returned |-> r.returned]
            /\ UNCHANGED <<transformations, default, glmmVars, vcVars>>

NextTM == Register \/ Transform


\* ------------------------------------------------------------------------
\* Arrays, Term and VarComp
\* ------------------------------------------------------------------------

NRows == 2

\* a.shape[1]
NCols(a) == Len(a.cols)

\* A pandas Series: one column with its dtype name.
Series(dtype, data) == [kind |-> "Series", dtype |-> dtype, data |-> data]

\* The loop of dummies_to_vec from column i (0-based) on.
RECURSIVE DummiesLoop(_, _, _)
DummiesLoop(d, i, vec) ==
    IF i >= NCols(d)
    THEN vec
    ELSE DummiesLoop(d, i + 1,
                     [r \in 1..d.nrows |->
                         IF d.cols[i + 1][r] = 1 THEN i + 1 ELSE vec[r]])

\* A variant that keeps the first active column of a row, not the last.
dummies_to_vec_first_wins(d) ==
    [r \in 1..d.nrows |->
        LET active == {i \in 1..NCols(d) : d.cols[i][r] = 1}
        IN  IF active = {} THEN 0
            ELSE CHOOSE i \in active : \A h \in active : i <= h]

dummies_to_vec(d) == DummiesLoop(d, 0, [r \in 1..d.nrows |-> 0])

\* Term.__init__
Term(name, values, categorical) ==
    [class       |-> "Term",
     name        |-> name,
     values      |-> values,
     categorical |-> categorical,
     prior       |-> None,
     metadata    |-> <<>>,
     index_vec   |-> None]

\* VarComp.__init__
VarComp(name, values) ==
    [Term(name, values, TRUE) EXCEPT
        !.class = "VarComp",
        !.index_vec = Some(dummies_to_vec(values))]

\* isinstance(t, VarComp)
IsVarComp(t) == t.class = "VarComp"

\* ------------------------------------------------------------------------
\* GLMMSpec: the terms mapping and the builders
\* ------------------------------------------------------------------------

\* The keys of an insertion-ordered dict.
Keys(d) == {d[i].key : i \in 1..Len(d)}

\* d[k] = v on an insertion-ordered dict: a present key keeps its place.
DictSet(d, k, v) ==
    IF k \in Keys(d)
    THEN [i \in 1..Len(d) |-> IF d[i].key = k THEN [key |-> k, val |-> v] ELSE d[i]]
    ELSE Append(d, [key |-> k, val |-> v])

\* list(d.values())
Values(d) == [i \in 1..Len(d) |-> d[i].val]

DuplicateTerm(name) == [type |-> "ValueError", what |-> "duplicate term", name |-> name]

\* A variant without the membership test: a present name is overwritten.
add_term_overwrite(ts, term) ==
    [terms |-> DictSet(ts, term.name, term), exc |-> None]

\* add_term(term) on the terms mapping ts: the mapping afterwards and the
\* exception raised, if any.
add_term(ts, term) ==
    IF term.name \in Keys(ts)
    THEN [terms |-> ts, exc |-> Some(DuplicateTerm(term.name))]
    ELSE [terms |-> DictSet(ts, term.name, term), exc |-> None]

\* data.dtype.name in ('str', 'category', 'object')
IsCategoricalDtype(dtype) == dtype \in {"str", "category", "object"}

\* The loop of build_fixed_terms over the columns that are left.
RECURSIVE FixedTermsLoop(_, _)
FixedTermsLoop(ts, columns) ==
    IF columns = <<>>
    THEN [terms |-> ts, exc |-> None]
    ELSE LET col  == Head(columns).label
             data == Head(columns).series
             cat  == IsCategoricalDtype(data.dtype)
             r    == add_term(ts, Term(col, data, cat))
         IN  IF r.exc # None THEN r ELSE FixedTermsLoop(r.terms, Tail(columns))

\* A variant that rolls the mapping back when a column is rejected.
build_fixed_terms_atomic(ts, table) ==
    LET r == FixedTermsLoop(ts, table)
    IN  IF r.exc # None THEN [terms |-> ts, exc |-> r.exc] ELSE r

\* build_fixed_terms(X): the table is a sequence of [label, series] columns
\* with distinct labels.
build_fixed_terms(ts, table) == FixedTermsLoop(ts, table)

\* np.ones((k, 1))
Ones(k) == Matrix(k, << [r \in 1..k |-> 1] >>)

\* Z[:, mask.astype(bool)]: the columns of Z whose mask entry is non-zero.
RECURSIVE SelectColumns(_, _)
SelectColumns(cols, mask) ==
    IF cols = <<>>
    THEN <<>>
    ELSE (IF Head(mask) # 0 THEN <<Head(cols)>> ELSE <<>>)
         \o SelectColumns(Tail(cols), Tail(mask))

\* ['VC{}'.format(i) for i in range(n)]
DefaultNames(n) == [i \in 1..n |-> "VC" \o ToString(i - 1)]

\* The loop of build_variance_components from component i (0-based) on.
RECURSIVE VarCompLoop(_, _, _, _, _)
VarCompLoop(ts, Z, groups, names, i) ==
    IF i >= NCols(groups)
    THEN [terms |-> ts, exc |-> None]
    ELSE LET z_grp == Matrix(Z.nrows, SelectColumns(Z.cols, groups.cols[i + 1]))
         IN  IF i + 1 > Len(names)
             THEN [terms |-> ts, exc |-> Some([type |-> "IndexError"])]
             ELSE LET r == add_term(ts, VarComp(names[i + 1], z_grp))
                  IN  IF r.exc # None
                      THEN r
                      ELSE VarCompLoop(r.terms, Z, groups, names, i + 1)

\* build_variance_components(Z, groups, sigma, names).  groups is None, a
\* bare array (columns = None) or a labelled frame; names is None or a list.
build_variance_components(ts, Z, groups, names) ==
    LET g == IF groups = None
             THEN [array |-> Ones(NCols(Z)), columns |-> None]
             ELSE groups[1]
        n_grps == NCols(g.array)
        nm == IF names # None THEN names[1]
              ELSE IF g.columns # None THEN g.columns[1]
              ELSE DefaultNames(n_grps)
    IN  VarCompLoop(ts, Z, g.array, nm, 0)

\* The fixed_terms and variance_components properties.
fixed_terms(ts) == SelectSeq(Values(ts), LAMBDA t : ~IsVarComp(t))
variance_components(ts) == SelectSeq(Values(ts), IsVarComp)

\* np.concatenate(arrs, axis=1): every item must be a 2-D array, all with
\* the same number of rows; anything else raises.
CanConcatenate(arrs) ==
    /\ arrs # <<>>
    /\ \A i \in 1..Len(arrs) : arrs[i].kind = "ndarray"
    /\ \A i \in 1..Len(arrs) : arrs[i].nrows = arrs[1].nrows

Concatenate(arrs) ==
    Matrix(arrs[1].nrows, Flatten([i \in 1..Len(arrs) |-> arrs[i].cols]))

\* zip(pairs) with ONE argument: one 1-tuple per element of pairs.
Zip1(pairs) == [i \in 1..Len(pairs) |-> <<pairs[i]>>]

\* The X property.  zip is handed the list itself, so it yields 1-tuples;
\* "names, cols = ..." unpacks only when there are exactly two of them, and
\* cols is then the 1-tuple holding the second (name, values) pair, which
\* np.concatenate cannot join along axis 1 (a ValueError, or its subclass
\* AxisError, depending on the numpy version).
X(ts) ==
    LET ft == fixed_terms(ts)
        zipped == Zip1([i \in 1..Len(ft) |->
                          [kind |-> "tuple", name |-> ft[i].name,
                           values |-> ft[i].values]])
    IN  IF ft = <<>> THEN ReturnNone
        ELSE IF Len(zipped) # 2 THEN Raise("ValueError")
        ELSE LET names == zipped[1]
                 cols  == zipped[2]
             IN  IF ~CanConcatenate(cols) THEN Raise("ValueError")
                 ELSE DataFrame(Concatenate(cols), names)

\* A variant that numbers the levels from 1.
LevelNames_from_one(c) ==
    [i \in 1..NCols(c.values) |-> c.name \o "." \o ToString(i)]

\* ['{}.{}'.format(c.name, i) for i in range(c.values.shape[1])]
LevelNames(c) ==
    [i \in 1..NCols(c.values) |-> c.name \o "." \o ToString(i - 1)]

\* The Z property.
Z(ts) ==
    LET vcs   == variance_components(ts)
        cols  == [i \in 1..Len(vcs) |-> vcs[i].values]
        names == Flatten([i \in 1..Len(vcs) |-> LevelNames(vcs[i])])
    IN  IF vcs = <<>> THEN ReturnNone
        ELSE IF ~CanConcatenate(cols) THEN Raise("ValueError")
        ELSE DataFrame(Concatenate(cols), names)

\* GLMMSpec.__init__(X=..., Z=..., groups=..., family=..., link=...), as
\* from_collection calls it: kwargs holds the arguments that were given.
GLMMSpecInit(kwargs) ==
    LET r0 == [terms |-> <<>>, exc |-> None]
        r1 == IF "X" \in DOMAIN kwargs
              THEN build_fixed_terms(r0.terms, kwargs["X"])
              ELSE r0
        r2 == IF r1.exc # None THEN r1
              ELSE IF "Z" \in DOMAIN kwargs
              THEN build_variance_components(
                       r1.terms, kwargs["Z"], DictGet(kwargs, "groups"), None)
              ELSE r1
    IN  [terms  |-> r2.terms,
         exc    |-> r2.exc,
         family |-> IF "family" \in DOMAIN kwargs THEN kwargs["family"] ELSE None,
         link   |-> IF "link" \in DOMAIN kwargs THEN kwargs["link"] ELSE None]

\* ------------------------------------------------------------------------
\* The variable collection (an external collaborator) and from_collection
\* ------------------------------------------------------------------------

\* The variables every collection of the model holds, NRows values each.
Variables ==
    [age  |-> Series("float64",  [r \in 1..NRows |-> 30 + r]),
     sex  |-> Series("object",   [r \in 1..NRows |-> r % 2]),
     subj |-> Series("category", [r \in 1..NRows |-> 2 - (r % 2)]),
     g1   |-> Series("int64",    [r \in 1..NRows |-> r % 2]),
     g2   |-> Series("int64",    [r \in 1..NRows |-> 1 - (r % 2)])]

\* collection.match_variables(patterns): the names each pattern resolves
\* to, pattern after pattern.  "g*" is the one wildcard of the model.
MatchPattern(p) ==
    IF p = "g*" THEN <<"g1", "g2">>
    ELSE IF p \in DOMAIN Variables THEN <<p>>
    ELSE <<>>

match_variables(patterns) ==
    Flatten([i \in 1..Len(patterns) |-> MatchPattern(patterns[i])])

\* collection.to_df(names).loc[:, names]: the named columns, in that order.
to_df(names) ==
    [i \in 1..Len(names) |-> [label |-> names[i], series |-> Variables[names[i]]]]

\* df.values of a table
TableValues(df) == Matrix(NRows, [i \in 1..Len(df) |-> df[i].series.data])

\* The elements of a finite set of integers in ascending order.
RECURSIVE SortedSeq(_)
SortedSeq(S) ==
    IF S = {} THEN <<>>
    ELSE LET m == CHOOSE x \in S : \A y \in S : x <= y
         IN  <<m>> \o SortedSeq(S \ {m})

\* pd.get_dummies(data).values: one indicator column per distinct value,
\* the values in ascending order.
get_dummies(data) ==
    LET levels == SortedSeq(Range(data))
    IN  Matrix(Len(data),
               [i \in 1..Len(levels) |->
                   [r \in 1..Len(data) |-> IF data[r] = levels[i] THEN 1 ELSE 0]])

\* The column block of one VarianceComponents descriptor, and the
\* collaborator calls it takes.
DescriptorBlock(d) ==
    IF "LevelsFrom" \in DOMAIN d
    THEN get_dummies(Variables[d["LevelsFrom"]].data)
    ELSE TableValues(to_df(match_variables(d["Levels"])))

DescriptorCalls(d) ==
    IF "LevelsFrom" \in DOMAIN d
    THEN {"variables"}
    ELSE {"match_variables", "to_df"}

\* The loop filling the incidence matrix: groups[c:(c+n), i] = 1; c += n.
\* g is the matrix so far, by columns; block i (1-based) is flagged next.
RECURSIVE GroupsLoop(_, _, _, _)
GroupsLoop(Z_list, g, i, c) ==
    IF i > Len(Z_list)
    THEN g
    ELSE LET n == NCols(Z_list[i])
         IN  GroupsLoop(
                 Z_list,
                 [g EXCEPT ![i] = [row \in 1..Len(g[i]) |->
                                      IF row > c /\ row <= c + n THEN 1 ELSE g[i][row]]],
                 i + 1, c + n)

\* np.zeros((k, v)) followed by the loop above.
IncidenceMatrix(Z_list, k) ==
    Matrix(k, GroupsLoop(Z_list,
                         [i \in 1..Len(Z_list) |-> [row \in 1..k |-> 0]], 1, 0))

SparseError == [type |-> "ValueError", what |-> "sparse variable"]
KeyError(k) == [type |-> "KeyError", key |-> k]

\* from_collection past its check of the collection (glmms = GLMMSpec()
\* to the end).  The result tells what was raised, the instance returned,
\* which collaborator methods were called, and how many GLMMSpec instances
\* were constructed on the way.
FromCheckedCollection(coll, model) ==
    LET probe  == IF coll.runLevel THEN {"all_dense"} ELSE {}
        names  == IF "X" \in DOMAIN model THEN model["X"] ELSE <<>>
        hasX   == names # <<>>
        Xdf    == to_df(match_variables(names))
        vcs    == IF "VarianceComponents" \in DOMAIN model
                  THEN model["VarianceComponents"] ELSE <<>>
        hasVC  == vcs # <<>>
        Z_list == [i \in 1..Len(vcs) |-> DescriptorBlock(vcs[i])]
        Zall   == Concatenate(Z_list)
        unnamed == {i \in 1..Len(vcs) : "Name" \notin DOMAIN vcs[i]}
        groups == [array   |-> IncidenceMatrix(Z_list, NCols(Zall)),
                   columns |-> Some([i \in 1..Len(vcs) |-> vcs[i]["Name"]])]
        error  == DictGet(model, "Error")
        hasErr == error # None /\ DOMAIN error[1] # {}
        kwX    == IF hasX THEN {"X"} ELSE {}
        kwZ    == IF hasVC THEN {"Z", "groups"} ELSE {}
        kwE    == IF hasErr THEN {"family", "link"} ELSE {}
        kwargs == [k \in kwX \cup kwZ \cup kwE |->
                     CASE k = "X"      -> Xdf
                       [] k = "Z"      -> Zall
                       [] k = "groups" -> groups
                       [] k = "family" -> DictGet(error[1], "Family")
                       [] k = "link"   -> DictGet(error[1], "Link")]
        called == probe
                  \cup (IF hasX THEN {"match_variables", "to_df"} ELSE {})
                  \cup UNION {DescriptorCalls(vcs[i]) : i \in 1..Len(vcs)}
        made   == GLMMSpecInit(kwargs)
    IN  IF hasVC /\ unnamed # {}
        THEN [exc |-> Some(KeyError("Name")), terms |-> <<>>, family |-> None,
              link |-> None, returned |-> FALSE,
              consulted |-> called, constructed |-> 1]
        ELSE [exc |-> made.exc, terms |-> made.terms,
              family |-> made.family, link |-> made.link,
              returned |-> made.exc = None,
              consulted |-> called,
              constructed |-> IF made.exc = None THEN 2 ELSE 1]

\* A variant without the check of the collection.
from_collection_unchecked(coll, model) == FromCheckedCollection(coll, model)

\* from_collection(collection, model): a run-level collection must be
\* dense, and nothing else happens when it is not.
from_collection(coll, model) ==
    IF coll.runLevel /\ ~coll.dense
    THEN [exc |-> Some(SparseError), terms |-> <<>>, family |-> None,
          link |-> None, returned |-> FALSE,
          consulted |-> {"all_dense"}, constructed |-> 0]
    ELSE FromCheckedCollection(coll, model)

\* ------------------------------------------------------------------------
\* The GLMMSpec state machine
\* ------------------------------------------------------------------------

MaxTerms == 3

\* What the model hands to the operations.
TermInputs ==
    {Term("age", Variables["age"], FALSE),
     Term("sex", Variables["sex"], TRUE),
     VarComp("grp", TableValues(to_df(<<"g1", "g2">>))),
     VarComp("subject", get_dummies(Variables["subj"].data))}

FixedTables ==
    {to_df(names) : names \in DistinctSeqsUpTo({"age", "sex"}, 2) \ {<<>>}}

ZInput == TableValues(to_df(<<"g1", "g2">>))

GroupsInputs ==
    {None,
     Some([array |-> Matrix(2, << <<1, 0>>, <<0, 1>> >>), columns |-> None]),
     Some([array |-> Matrix(2, << <<1, 0>> >>), columns |-> None]),
     Some([array   |-> Matrix(2, << <<1, 1>>, <<0, 1>> >>),
           columns |-> Some(<<"grp", "subject">>)])}

NamesInputs == {None, Some(<<"subject">>)}

Collections ==
    {[runLevel |-> FALSE, dense |-> FALSE],
     [runLevel |-> TRUE,  dense |-> TRUE],
     [runLevel |-> TRUE,  dense |-> FALSE]}

XFields == {None, Some(<<"age", "sex">>), Some(<<"sex", "age">>)}

VarianceComponentsFields ==
    {None,
     Some(<< [LevelsFrom |-> "subj"] >>),
     Some(<< [LevelsFrom |-> "subj", Name |-> "subject"],
             [Levels |-> <<"g*">>, Name |-> "grp"] >>),
     Some(<< [Levels |-> <<"g1">>, Name |-> "age"] >>)}

ErrorFields ==
    {None,
     Some([Family |-> "binomial", Link |-> "logit"]),
     Some([Family |-> "poisson"])}

\* The model description with the fields that are given.
ModelOf(x, v, e) ==
    [k \in (IF x = None THEN {} ELSE {"X"})
           \cup (IF v = None THEN {} ELSE {"VarianceComponents"})
           \cup (IF e = None THEN {} ELSE {"Error"}) |->
        CASE k = "X" -> x[1]
          [] k = "VarianceComponents" -> v[1]
          [] k = "Error" -> e[1]]

Models == {ModelOf(x, v, e) : x \in XFields, v \in VarianceComponentsFields,
                              e \in ErrorFields}

\* Whether the caller holds a GLMMSpec instance.
HasInstance ==
    /\ last.op # "none"
    /\ ~(last.op = "from_collection" /\ last.exc # None)

InitGLMM ==
    /\ terms = <<>>
    /\ family = None
    /\ link = None
    /\ collection \in Collections
    /\ last = NoOp
    \* no TransformerManager in use, no separate VarComp
    /\ transformations = <<>>
    /\ default = {}
    /\ request = NoRequest
    /\ calls = <<>>
    /\ ret = [exc |-> None, returned |-> None]
    /\ dummies = Matrix(0, <<>>)
    /\ vc = None

\* GLMMSpec() with no argument
New ==
    /\ ~HasInstance
    /\ LET made == GLMMSpecInit(<<>>)
       IN  /\ terms' = made.terms
           /\ family' = made.family
           /\ link' = made.link
           /\ last' = Op("GLMMSpec", <<>>, <<>>, made.exc, ReturnNone, {}, 1)
    /\ UNCHANGED <<collection, tmVars, vcVars>>

\* spec = GLMMSpec.from_collection(collection, model)
FromCollection ==
    /\ ~HasInstance
    /\ \E model \in Models :
        LET r == from_collection(collection, model)
        IN  /\ terms' = r.terms
            /\ family' = r.family
            /\ link' = r.link
            /\ last' = Op("from_collection", model, <<>>, r.exc,
                          IF r.returned THEN Return("GLMMSpec")
                          ELSE Raise(r.exc[1].type),
                          r.consulted, r.constructed)
    /\ UNCHANGED <<collection, tmVars, vcVars>>

AddTerm ==
    /\ HasInstance
    /\ \E term \in TermInputs :
        LET r == add_term(terms, term)
        IN  /\ Len(r.terms) <= MaxTerms
            /\ terms' = r.terms
            /\ last' = Op("add_term", term, terms, r.exc, ReturnNone, {}, 0)
    /\ UNCHANGED <<family, link, collection, tmVars, vcVars>>

BuildFixedTerms ==
    /\ HasInstance
    /\ \E table \in FixedTables :
        LET r == build_fixed_terms(terms, table)
        IN  /\ Len(r.terms) <= MaxTerms
            /\ terms' = r.terms
            /\ last' = Op("build_fixed_terms", table, terms, r.exc, ReturnNone, {}, 0)
    /\ UNCHANGED <<family, link, collection, tmVars, vcVars>>

BuildVarianceComponents ==
    /\ HasInstance
    /\ \E groups \in GroupsInputs, names \in NamesInputs :
        LET r == build_variance_components(terms, ZInput, groups, names)
        IN  /\ Len(r.terms) <= MaxTerms
            /\ terms' = r.terms
            /\ last' = Op("build_variance_components",
                          [groups |-> groups, names |-> names],
                          terms, r.exc, ReturnNone, {}, 0)
    /\ UNCHANGED <<family, link, collection, tmVars, vcVars>>

GetX ==
    /\ HasInstance
    /\ last' = Op("X", <<>>, terms, None, X(terms), {}, 0)
    /\ UNCHANGED <<terms, family, link, collection, tmVars, vcVars>>

GetZ ==
    /\ HasInstance
    /\ last' = Op("Z", <<>>, terms, None, Z(terms), {}, 0)
    /\ UNCHANGED <<terms, family, link, collection, tmVars, vcVars>>

NextGLMM ==
    \/ New
    \/ FromCollection
    \/ AddTerm
    \/ BuildFixedTerms
    \/ BuildVarianceComponents
    \/ GetX
    \/ GetZ

\* ------------------------------------------------------------------------
\* The VarComp constructor over every small binary matrix
\* ------------------------------------------------------------------------

MaxRows == 4
MaxLevels == 2

InitVarComp ==
    /\ dummies = Matrix(0, <<>>)
    /\ vc = None
    \* no TransformerManager, no GLMMSpec
    /\ transformations = <<>>
    /\ default = {}
    /\ request = NoRequest
    /\ calls = <<>>
    /\ ret = [exc |-> None, returned |-> None]
    /\ terms = <<>>
    /\ family = None
    /\ link = None
    /\ collection = [runLevel |-> FALSE, dense |-> FALSE]
    /\ last = NoOp

\* vc = VarComp(name, dummies), once, on any binary matrix of at most
\* MaxRows rows and MaxLevels columns
NewVarComp ==
    /\ vc = None
    /\ \E n \in 0..MaxRows, k \in 0..MaxLevels :
        \E cols \in [1..k -> [1..n -> {0, 1}]] :
            /\ dummies' = Matrix(n, cols)
            /\ vc' = Some(VarComp("vc", Matrix(n, cols)))
    /\ UNCHANGED <<tmVars, glmmVars>>

NextVarComp == NewVarComp

\* ------------------------------------------------------------------------
\* Specifications
\* ------------------------------------------------------------------------

\* Each specification starts its own component and leaves the variables
\* of the other two at rest.
SpecTM      == InitTM /\ [][NextTM]_vars
SpecGLMM    == InitGLMM /\ [][NextGLMM]_vars
SpecVarComp == InitVarComp /\ [][NextVarComp]_vars

\* ------------------------------------------------------------------------
\* Claims about the TransformerManager (checked under SpecTM)
\* ------------------------------------------------------------------------

\* What the claims say of one spec t of a transform call.
SpecName(t)    == _sanitize_name(t["Name"])
SpecInput(t)   == IF "Input" \in DOMAIN t THEN Some(t["Input"]) ELSE None
SpecOptions(t) == [k \in (DOMAIN t) \ {"Name", "Input"} |-> t[k]]
Registered(t)  == SpecName(t) \in DOMAIN transformations
Resolvable(t)  == Registered(t) \/ SpecName(t) \in default

\* The handler the documented resolution order gives spec t: the registry
\* first, the default module's attribute otherwise.
Resolved(t) ==
    IF Registered(t) THEN transformations[SpecName(t)]
    ELSE GetAttr(default, SpecName(t))

\* calls[i] is the invocation the documented contract asks for specs[i].
IsCallFor(c, t) ==
    /\ c.func = Resolved(t)
    /\ c.coll = request.coll
    /\ c.cols = SpecInput(t)
    /\ c.options = SpecOptions(t)

\* The first spec of the call that neither the registry nor the default
\* module resolves (0 when every spec resolves).
FirstUnresolvable(ts) ==
    IF \A i \in 1..Len(ts) : Resolvable(ts[i]) THEN 0
    ELSE CHOOSE i \in 1..Len(ts) :
            /\ ~Resolvable(ts[i])
            /\ \A j \in 1..(i - 1) : Resolvable(ts[j])

\* C1: after register(name, h), a transform whose spec i carries that name
\* (the specs before it all resolving) invokes h for spec i, with the
\* collection, the spec's Input or None, and the remaining keys as options;
\* the default module's attribute of that name is not what is invoked.
C1_RegisteredHandlerInvoked ==
    request.op = "transform" =>
        \A i \in 1..Len(request.specs) :
            (/\ Registered(request.specs[i])
             /\ \A j \in 1..(i - 1) : Resolvable(request.specs[j]))
            => /\ Len(calls) >= i
               /\ IsCallFor(calls[i], request.specs[i])
               /\ calls[i].func = transformations[SpecName(request.specs[i])]

\* C4: a transform that applies all its specs makes one handler invocation
\* per spec, in list order, each on the same collection as left by the
\* invocations before it, and returns that same collection.
C4_OneInvocationPerSpecInOrder ==
    (request.op = "transform" /\ ret.exc = None) =>
        /\ Len(calls) = Len(request.specs)
        /\ \A i \in 1..Len(calls) :
            /\ IsCallFor(calls[i], request.specs[i])
            /\ calls[i].seen = [j \in 1..(i - 1) |-> calls[j].func]
        /\ ret.returned = Some(request.coll)

\* C5: transform raises the unknown-transformation error exactly when some
\* spec resolves neither way; it then names the first such spec, the
\* handlers of all specs before it have been applied and none after.
C5_UnknownNameAbortsAfterEarlierHandlers ==
    request.op = "transform" =>
        LET u == FirstUnresolvable(request.specs)
        IN  /\ (ret.exc # None) <=> (u # 0)
            /\ u # 0 =>
                /\ ret.exc = Some([type |-> "ValueError",
                                   name |-> SpecName(request.specs[u])])
                /\ ret.returned = None
                /\ Len(calls) = u - 1
                /\ \A i \in 1..Len(calls) : IsCallFor(calls[i], request.specs[i])
                /\ request.content = [i \in 1..(u - 1) |-> Resolved(request.specs[i])]

\* ------------------------------------------------------------------------
\* Claims about GLMMSpec (checked under SpecGLMM)
\* ------------------------------------------------------------------------

\* The positions of a terms mapping that hold fixed terms / variance
\* components, in insertion order.
FixedAt(ts)   == SortedSeq({i \in 1..Len(ts) : ts[i].val.class = "Term"})
VarCompAt(ts) == SortedSeq({i \in 1..Len(ts) : ts[i].val.class = "VarComp"})

\* C2: the X property of a GLMMSpec with fixed terms (built by
\* from_collection or otherwise) is a table with one column per fixed term,
\* in insertion order of the terms mapping, labelled by the term names and
\* holding the terms' values, however variance components are interleaved.
C2_XListsFixedTermsInOrder ==
    (last.op = "X" /\ FixedAt(terms) # <<>>) =>
        LET at == FixedAt(terms)
        IN  /\ last.out.kind = "DataFrame"
            /\ last.out.columns = [q \in 1..Len(at) |-> terms[at[q]].val.name]
            /\ last.out.data.cols = [q \in 1..Len(at) |-> terms[at[q]].val.values.data]

\* C3: add_term with a name that is already a key raises the duplicate-term
\* error and leaves the mapping as it was; with a new name it appends
\* exactly one entry keyed by the name and touches no other.  In every
\* state each key is the name of the term stored under it, and no two
\* terms share a name.
C3_AddTermRejectsDuplicates ==
    /\ last.op = "add_term" =>
        IF \E i \in 1..Len(last.pre) : last.pre[i].key = last.arg.name
        THEN /\ last.exc = Some(DuplicateTerm(last.arg.name))
             /\ terms = last.pre
        ELSE /\ last.exc = None
             /\ terms = last.pre \o <<[key |-> last.arg.name, val |-> last.arg]>>
    /\ \A i \in 1..Len(terms) : terms[i].key = terms[i].val.name
    /\ \A i, j \in 1..Len(terms) : terms[i].val.name = terms[j].val.name => i = j

\* A duplicate add_term was rejected on a mapping of two or more terms.
C3_Witness ==
    /\ last.op = "add_term"
    /\ last.exc # None
    /\ Len(terms) >= 2

\* No two descriptors of the model share a Name, and no Name is that of a
\* fixed term (such a model ends in the duplicate-term error).
NoNameClash(model) ==
    LET ds == model["VarianceComponents"]
        named == {i \in 1..Len(ds) : "Name" \in DOMAIN ds[i]}
        fixed == IF "X" \in DOMAIN model THEN Range(match_variables(model["X"])) ELSE {}
    IN  /\ \A i, j \in named : ds[i]["Name"] = ds[j]["Name"] => i = j
        /\ \A i \in named : ds[i]["Name"] \notin fixed

\* C6: for a VarianceComponents list of {LevelsFrom} and {Levels, Name}
\* descriptors (no two of them, and no fixed term, sharing a label),
\* from_collection returns a GLMMSpec with exactly one variance component
\* per descriptor, in descriptor order, holding exactly that descriptor's
\* column block, and labelled by the descriptor's Name where it has one.
C6_OneVarCompPerDescriptor ==
    (/\ last.op = "from_collection"
     /\ ~(collection.runLevel /\ ~collection.dense)
     /\ "VarianceComponents" \in DOMAIN last.arg
     /\ NoNameClash(last.arg)) =>
        LET ds == last.arg["VarianceComponents"]
            at == VarCompAt(terms)
        IN  /\ last.exc = None
            /\ last.out.kind = "GLMMSpec"
            /\ Len(at) = Len(ds)
            /\ \A q \in 1..Len(at) :
                /\ terms[at[q]].val.values = DescriptorBlock(ds[q])
                /\ "Name" \in DOMAIN ds[q] => terms[at[q]].val.name = ds[q]["Name"]

\* C7: from_collection on a run-level collection that is not dense raises
\* the sparse-input error before anything is constructed: no GLMMSpec is
\* built or returned, and match_variables, to_df and variables are not
\* consulted.
C7_SparseCollectionRejectedFirst ==
    (/\ last.op = "from_collection"
     /\ collection.runLevel
     /\ ~collection.dense) =>
        /\ last.exc = Some(SparseError)
        /\ last.out.kind = "raise"
        /\ last.constructed = 0
        /\ last.consulted \cap {"match_variables", "to_df", "variables"} = {}
        /\ terms = <<>>
        /\ ~HasInstance

\* from_collection was called on a sparse run-level collection with a model
\* that names fixed effects and variance components.
C7_Witness ==
    /\ last.op = "from_collection"
    /\ collection.runLevel
    /\ ~collection.dense
    /\ "X" \in DOMAIN last.arg
    /\ "VarianceComponents" \in DOMAIN last.arg
    /\ last.exc # None

\* C8: the Z property of a GLMMSpec with variance components lists them in
\* insertion order; the columns of a component c with m levels are
\* labelled "c.0" .. "c.(m-1)" and hold c's columns; the number of columns
\* is the sum of the level counts, fixed terms adding none.
C8_ZColumnsPerComponentLevel ==
    (last.op = "Z" /\ VarCompAt(terms) # <<>>) =>
        LET at == VarCompAt(terms)
            comp(q) == terms[at[q]].val
            m(q) == Len(comp(q).values.cols)
            offset(q) == SumSeq([p \in 1..(q - 1) |-> m(p)])
            total == SumSeq([q \in 1..Len(at) |-> m(q)])
        IN  /\ last.out.kind = "DataFrame"
            /\ Len(last.out.columns) = total
            /\ Len(last.out.data.cols) = total
            /\ \A q \in 1..Len(at) : \A i \in 0..(m(q) - 1) :
                /\ last.out.columns[offset(q) + i + 1]
                       = comp(q).name \o "." \o ToString(i)
                /\ last.out.data.cols[offset(q) + i + 1] = comp(q).values.cols[i + 1]

\* Z was read from a GLMMSpec holding a fixed term between two variance
\* components, three or more columns in all.
C8_Witness ==
    /\ last.op = "Z"
    /\ last.out.kind = "DataFrame"
    /\ Len(last.out.columns) >= 3
    /\ \E i, j, k \in 1..Len(terms) :
        /\ i < j /\ j < k
        /\ terms[i].val.class = "VarComp"
        /\ terms[j].val.class = "Term"
        /\ terms[k].val.class = "VarComp"

\* C10: when build_fixed_terms meets, at column j, the first label that was
\* already a key before the call, it raises the duplicate-term error; the
\* terms of columns 1..j-1 have been appended in order and stay, nothing is
\* added for columns j.., and the terms present before are unchanged.
C10_BuildFixedTermsStopsAtDuplicate ==
    (/\ last.op = "build_fixed_terms"
     /\ \E j \in 1..Len(last.arg) : last.arg[j].label \in Keys(last.pre)) =>
        LET j == CHOOSE j \in 1..Len(last.arg) :
                    /\ last.arg[j].label \in Keys(last.pre)
                    /\ \A i \in 1..(j - 1) : last.arg[i].label \notin Keys(last.pre)
            n == Len(last.pre)
        IN  /\ last.exc = Some(DuplicateTerm(last.arg[j].label))
            /\ Len(terms) = n + j - 1
            /\ SubSeq(terms, 1, n) = last.pre
            /\ \A i \in 1..(j - 1) :
                /\ terms[n + i].key = last.arg[i].label
                /\ terms[n + i].val.name = last.arg[i].label
                /\ terms[n + i].val.values = last.arg[i].series
                /\ terms[n + i].val.class = "Term"

\* build_fixed_terms raised on its second column after adding its first.
C10_Witness ==
    /\ last.op = "build_fixed_terms"
    /\ last.exc # None
    /\ Len(last.pre) >= 1
    /\ Len(terms) = Len(last.pre) + 1

\* ------------------------------------------------------------------------
\* Claims about VarComp (checked under SpecVarComp)
\* ------------------------------------------------------------------------

\* C9: for every binary matrix D of n rows, the index_vec of VarComp(D) --
\* dummies_to_vec(D) -- has length n, and entry r is i+1 for the largest
\* column index i with D[r, i] = 1, or 0 when row r has no 1.
C9_IndexVecIsLastActiveColumn ==
    vc # None =>
        LET v == vc[1].index_vec[1]
            k == Len(dummies.cols)
            active(r) == {i \in 0..(k - 1) : dummies.cols[i + 1][r] = 1}
        IN  /\ vc[1].values = dummies
            /\ DOMAIN v = 1..dummies.nrows
            /\ \A r \in 1..dummies.nrows :
                IF active(r) = {} THEN v[r] = 0
                ELSE \E i \in active(r) :
                        /\ \A h \in active(r) : h <= i
                        /\ v[r] = i + 1

\* The rows [[1,0],[0,1],[1,0],[0,0]] gave [1,2,1,0].
C9_Witness ==
    /\ vc # None
    /\ dummies = Matrix(4, << <<1, 0, 1, 0>>, <<0, 1, 0, 0>> >>)
    /\ vc[1].index_vec = Some(<<1, 2, 1, 0>>)

=============================================================================
